---- MODULE Spec2Model ----
(***************************************************************************)
(* Sudoku generator (class SudokuCSP) and its UI controller (app) of       *)
(* src/script.js, as a state machine.                                      *)
(*                                                                         *)
(* Grids are heap objects: a variable such as board or solution holds an   *)
(* address, and heap maps the address to the 9x9 content.  Every array the *)
(* code creates is created with nine fresh rows (lines 9, 88, 95, 174,     *)
(* 178), so no row is ever shared between two grids and a grid is modelled *)
(* as one object.  Addresses no variable holds any more are reclaimed, as  *)
(* the JavaScript garbage collector does.                                  *)
(*                                                                         *)
(* Math.random() is the platform's pseudo random generator: a state (rng)  *)
(* that every call advances; the seed is any value of 0..MaxSeed.          *)
(***************************************************************************)
EXTENDS Integers, Sequences, FiniteSets, TLC

\* ---------------------------------------------------------------- bounds
MaxSeed == 1          \* seeds of the random generator: 0..MaxSeed
MaxGames == 2         \* generateNewGame calls in one behaviour
MaxTime == 2          \* ticks of the timer followed after a startTimer
SeedSpan == 13        \* seeds of SpecSeeds: 0..SeedSpan
HeapSize == 6         \* addresses of grid objects
MaxEmpty == 5         \* empty cells of a starting grid of SpecSolve
MaxCount == 4         \* the count a client passes to removeDigits: 0..MaxCount

\* ------------------------------------------------------- program constants
Null == 0             \* null (line 10), also the empty array [] of lines 127-129
Size == 9             \* this.size
BoxSize == 3
Easy == 30
Medium == 40
Hard == 50

\* Math.random(): a linear congruential generator of full period RngMod.
RngMod == 1024
RngMul == 229
RngInc == 31

Idx == 0 .. (Size - 1)
Digits == 1 .. Size
Addr == 1 .. HeapSize
Grids == [Idx -> [Idx -> 0 .. Size]]
ZeroGrid == [i \in Idx |-> [j \in Idx |-> 0]]

\* The values a client writes into a grid it was given: the smallest and the
\* largest value of a cell.
ClientValues == {0, Size}

\* The difficulty arguments a caller passes; Undefined is the missing argument.
Undefined == "undefined"
Difficulties == {"Easy", "Medium", "Hard", "Expert", Undefined}

VARIABLES
  heap,        \* address -> content of the grid object
  live,        \* the addresses in use
  board,       \* this.board
  solution,    \* this.solution
  pc,          \* position of the control
  caller,      \* who made the outermost call: "client" or "app" (generateNewGame),
               \* "solver" (solveBoard) or "remover" (removeDigits)
  arg,         \* the argument the caller passed to the outermost call
  difficulty,  \* generateNewGame's parameter, the default applied
  fillPos,     \* fillDiagonal/fillBox loop variables <<box origin, i, j>>
  stack,       \* solveBoard's active calls, each <<i, j, num>>
  ret,         \* value returned by the solveBoard call that ended last
  count,       \* removeDigits' count
  rng,         \* state of Math.random
  result,      \* the object generateNewGame returned last: [initial, solution]
  earlier,     \* the object it returned the time before, which the client keeps
  games,       \* number of generateNewGame calls so far
  \* the UI controller (app)
  initialBoard, currentBoard, solutionBoard, selectedCell, timerInterval,
  timeElapsed, isGameActive,
  intervals,   \* the intervals setInterval started and clearInterval has not ended
  branch,      \* the branch of lines 333-339 taken by checkSolution, when it is
               \* the handler that ran last, else "none"
  \* a call of isValid on a grid of the caller's
  probe,
  \* what an observer of solveBoard records
  start,       \* the content of the grid when the outermost solveBoard or
               \* removeDigits call began
  entry        \* for each call of stack, the content of the grid when it began

gvars == <<heap, live, board, solution, pc, caller, arg, difficulty, fillPos,
           stack, ret, count, rng, result, earlier, games>>
uvars == <<initialBoard, currentBoard, solutionBoard, selectedCell,
           timerInterval, timeElapsed, isGameActive, intervals, branch>>
svars == <<start, entry>>
vars == <<gvars, uvars, probe, svars>>

\* What a caller holds before generateNewGame has returned anything.
NoResult == [initial |-> Null, solution |-> Null]

\* ------------------------------------------------------------ Math.random
NextRng(s) == (s * RngMul + RngInc) % RngMod
\* Math.floor(Math.random() * n), Math.random() being s / RngMod
RandomInt(s, n) == (s * n) \div RngMod

\* --------------------------------------------------------------- the heap
NewAddr(lv) == CHOOSE a \in Addr \ lv : \A b \in Addr \ lv : a <= b
Collect(h, roots) == [a \in Addr |-> IF a \in roots THEN h[a] ELSE ZeroGrid]
\* row => [...row] over every row: a new grid with the same content
DeepCopy(g) == [i \in Idx |-> [j \in Idx |-> g[i][j]]]

\* ------------------------------------------------------ SudokuCSP.isValid
\* (a variant that leaves out the column loop of lines 21-23)
isValidNoCol(b, row, col, num) ==
  LET startRow == row - (row % BoxSize)
      startCol == col - (col % BoxSize)
  IN /\ \A x \in Idx : b[row][x] # num
     /\ \A i, j \in 0 .. (BoxSize - 1) : b[i + startRow][j + startCol] # num

\* (a variant that leaves out the box loop of lines 26-32)
isValidNoBox(b, row, col, num) ==
  /\ \A x \in Idx : b[row][x] # num
  /\ \A x \in Idx : b[x][col] # num

isValid(b, row, col, num) ==
  LET startRow == row - (row % BoxSize)
      startCol == col - (col % BoxSize)
  IN /\ \A x \in Idx : b[row][x] # num
     /\ \A x \in Idx : b[x][col] # num
     /\ \A i, j \in 0 .. (BoxSize - 1) : b[i + startRow][j + startCol] # num

\* -------------------------------------------------- SudokuCSP.isSafeInBox
\* (a variant that accepts no 9)
isSafeInBoxNoNine(b, rowStart, colStart, num) ==
  /\ num # Size
  /\ \A i, j \in 0 .. (BoxSize - 1) : b[rowStart + i][colStart + j] # num

\* (a variant whose loops look at the first row of the box only)
isSafeInBoxFirstRow(b, rowStart, colStart, num) ==
  \A j \in 0 .. (BoxSize - 1) : b[rowStart][colStart + j] # num

isSafeInBox(b, rowStart, colStart, num) ==
  \A i, j \in 0 .. (BoxSize - 1) : b[rowStart + i][colStart + j] # num

\* ------------------------------------------- SudokuCSP.fillBox, one draw
\* One pass of the do-while of lines 49-51 with the draw num, and when the
\* draw is safe the write of line 52.
fillBox(b, pos, num) ==
  IF isSafeInBox(b, pos[1], pos[1], num)
    THEN [b EXCEPT ![pos[1] + pos[2]][pos[1] + pos[3]] = num]
    ELSE b

\* (a variant whose i loop ends one row early)
NextFillPosShort(pos) ==
  IF pos[3] + 1 < BoxSize THEN <<pos[1], pos[2], pos[3] + 1>>
  ELSE IF pos[2] + 2 < BoxSize THEN <<pos[1], pos[2] + 1, 0>>
  ELSE <<pos[1] + BoxSize, 0, 0>>

\* The loop variables after a write: j, then i (lines 47-48), then the next
\* diagonal box (line 39).
NextFillPos(pos) ==
  IF pos[3] + 1 < BoxSize THEN <<pos[1], pos[2], pos[3] + 1>>
  ELSE IF pos[2] + 1 < BoxSize THEN <<pos[1], pos[2] + 1, 0>>
  ELSE <<pos[1] + BoxSize, 0, 0>>

\* ---------------------------------------------------- SudokuCSP.solveBoard
\* The scan of lines 69-71 from cell c = i * 9 + j on, rows bounded by the
\* row count rows: the index of the first empty cell, or Size * Size when the
\* scan ends without one.
RECURSIVE Scan(_, _, _)
Scan(b, c, rows) ==
  IF c >= rows * Size THEN Size * Size
  ELSE IF b[c \div Size][c % Size] = 0 THEN c
  ELSE Scan(b, c + 1, rows)

\* (a variant whose row loop stops one row early)
FirstEmptyShort(b) == Scan(b, 0, Size - 1)

FirstEmpty(b) == Scan(b, 0, Size)

\* (a variant whose loop never tries the digit 1)
RECURSIVE NextValidSkipsOne(_, _, _, _)
NextValidSkipsOne(b, i, j, num) ==
  IF num > Size THEN Size + 1
  ELSE IF num > 1 /\ isValid(b, i, j, num) THEN num
  ELSE NextValidSkipsOne(b, i, j, num + 1)

\* The loop of lines 72-73 from num on: the first digit >= num that isValid
\* accepts at (i, j), or Size + 1 when the loop runs out.
RECURSIVE NextValid(_, _, _, _)
NextValid(b, i, j, num) ==
  IF num > Size THEN Size + 1
  ELSE IF isValid(b, i, j, num) THEN num
  ELSE NextValid(b, i, j, num + 1)

\* ------------------------------------------------ SudokuCSP.generateNewGame
\* (a variant whose default is the Easy count)
AttemptsDefaultEasy(d) ==
  IF d = "Hard" THEN Hard ELSE IF d = "Medium" THEN Medium ELSE Easy

\* Lines 98-100.
Attempts(d) ==
  IF d = "Hard" THEN Hard ELSE IF d = "Easy" THEN Easy ELSE Medium

\* The addresses some variable of the generator or its caller holds.
Roots(bd, sol, res, ib, cb, sb) ==
  {bd, sol, res.initial, res.solution, earlier.initial, earlier.solution,
   ib, cb, sb} \ {Null}

\* (a variant whose reset zeroes the rows of the grid this.board holds instead
\* of storing a new grid)
EnterResetsInPlace(who, d) ==
  /\ games < MaxGames
  /\ games' = games + 1
  /\ caller' = who
  /\ arg' = d
  /\ difficulty' = IF d = Undefined THEN "Medium" ELSE d
  /\ heap' = [heap EXCEPT ![board] = ZeroGrid]
  /\ fillPos' = <<0, 0, 0>>
  /\ pc' = "fill"
  /\ UNCHANGED <<live, board, solution, stack, ret, count, rng, result, earlier,
                 uvars, probe, svars>>

\* Lines 86-88: the call, the default of the parameter, and the reset of
\* this.board to a new all-zero grid.  The client still holds the result of
\* its last call.
Enter(who, d) ==
  /\ games < MaxGames
  /\ games' = games + 1
  /\ caller' = who
  /\ arg' = d
  /\ difficulty' = IF d = Undefined THEN "Medium" ELSE d
  /\ LET a == NewAddr(live)
         roots == Roots(a, solution, result, initialBoard, currentBoard,
                        solutionBoard)
     IN /\ board' = a
        /\ heap' = Collect([heap EXCEPT ![a] = ZeroGrid], roots)
        /\ live' = roots
  /\ fillPos' = <<0, 0, 0>>
  /\ pc' = "fill"
  /\ UNCHANGED <<solution, stack, ret, count, rng, result, earlier, uvars, probe,
                 svars>>

\* A client of the class calls generateNewGame(d).
GenerateNewGame(d) ==
  /\ pc \in {"idle", "returned"}
  /\ Enter("client", d)

\* Lines 49-52: one draw of fillBox; lines 39-41 and 47-48 when it is written.
FillBoxStep ==
  /\ pc = "fill"
  /\ rng' = NextRng(rng)
  /\ LET num == RandomInt(rng', Size) + 1
         b == heap[board]
     IN /\ heap' = [heap EXCEPT ![board] = fillBox(b, fillPos, num)]
        /\ fillPos' = IF isSafeInBox(b, fillPos[1], fillPos[1], num)
                        THEN NextFillPos(fillPos) ELSE fillPos
  /\ pc' = IF fillPos'[1] < Size THEN "fill" ELSE "solve"
  /\ UNCHANGED <<live, board, solution, caller, arg, difficulty, stack, ret, count,
                 result, earlier, games, uvars, probe, svars>>

\* Lines 68-71 and 83: a solveBoard call starts, finds its cell or returns true.
SolveBoardEnter ==
  /\ pc = "solve"
  /\ LET c == FirstEmpty(heap[board])
     IN IF c = Size * Size
          THEN /\ ret' = TRUE
               /\ pc' = "unwind"
               /\ UNCHANGED <<stack, entry>>
          ELSE /\ stack' = Append(stack, <<c \div Size, c % Size, 1>>)
               /\ entry' = Append(entry, heap[board])
               /\ pc' = "try"
               /\ ret' = ret
  /\ start' = IF stack = <<>> THEN heap[board] ELSE start
  /\ UNCHANGED <<heap, live, board, solution, caller, arg, difficulty, fillPos,
                 count, rng, result, earlier, games, uvars, probe>>

\* (a variant without the write of line 74)
SolveBoardTryNoWrite ==
  /\ pc = "try"
  /\ LET top == stack[Len(stack)]
         n == NextValid(heap[board], top[1], top[2], top[3])
     IN IF n > Size
          THEN /\ stack' = SubSeq(stack, 1, Len(stack) - 1)
               /\ entry' = SubSeq(entry, 1, Len(entry) - 1)
               /\ ret' = FALSE
               /\ pc' = "unwind"
          ELSE /\ stack' = [stack EXCEPT ![Len(stack)] = <<top[1], top[2], n>>]
               /\ pc' = "solve"
               /\ UNCHANGED <<ret, entry>>
  /\ UNCHANGED <<heap, live, board, solution, caller, arg, difficulty, fillPos,
                 count, rng, result, earlier, games, uvars, probe, start>>

\* Lines 72-75 and 79: the innermost call tries the digits from num on; it
\* places the first valid one and calls solveBoard, or returns false.
SolveBoardTry ==
  /\ pc = "try"
  /\ LET top == stack[Len(stack)]
         n == NextValid(heap[board], top[1], top[2], top[3])
     IN IF n > Size
          THEN /\ stack' = SubSeq(stack, 1, Len(stack) - 1)
               /\ entry' = SubSeq(entry, 1, Len(entry) - 1)
               /\ ret' = FALSE
               /\ pc' = "unwind"
               /\ heap' = heap
          ELSE /\ heap' = [heap EXCEPT ![board][top[1]][top[2]] = n]
               /\ stack' = [stack EXCEPT ![Len(stack)] = <<top[1], top[2], n>>]
               /\ pc' = "solve"
               /\ UNCHANGED <<ret, entry>>
  /\ UNCHANGED <<live, board, solution, caller, arg, difficulty, fillPos, count,
                 rng, result, earlier, games, uvars, probe, start>>

\* (a variant without the clearing of line 76)
SolveBoardReturnNoUndo ==
  /\ pc = "unwind"
  /\ IF stack = <<>>
       THEN /\ pc' = IF caller = "solver" THEN "solved" ELSE "copy"
            /\ UNCHANGED <<heap, stack, entry>>
       ELSE LET top == stack[Len(stack)]
            IN IF ret
                 THEN /\ stack' = SubSeq(stack, 1, Len(stack) - 1)
                      /\ entry' = SubSeq(entry, 1, Len(entry) - 1)
                      /\ pc' = "unwind"
                      /\ heap' = heap
                 ELSE /\ heap' = heap
                      /\ stack' = [stack EXCEPT ![Len(stack)] =
                                     <<top[1], top[2], top[3] + 1>>]
                      /\ entry' = entry
                      /\ pc' = "try"
  /\ UNCHANGED <<live, board, solution, caller, arg, difficulty, fillPos, ret,
                 count, rng, result, earlier, games, uvars, probe, start>>

\* (a variant in which a call whose recursive call failed gives up: it clears
\* its cell and returns false without trying the digits left)
SolveBoardReturnGivesUp ==
  /\ pc = "unwind"
  /\ IF stack = <<>>
       THEN /\ pc' = IF caller = "solver" THEN "solved" ELSE "copy"
            /\ UNCHANGED <<heap, stack, entry>>
       ELSE LET top == stack[Len(stack)]
            IN /\ stack' = SubSeq(stack, 1, Len(stack) - 1)
               /\ entry' = SubSeq(entry, 1, Len(entry) - 1)
               /\ pc' = "unwind"
               /\ heap' = IF ret THEN heap
                          ELSE [heap EXCEPT ![board][top[1]][top[2]] = 0]
  /\ UNCHANGED <<live, board, solution, caller, arg, difficulty, fillPos, ret,
                 count, rng, result, earlier, games, uvars, probe, start>>

\* A solveBoard call has returned ret: to line 94 (the call of generateNewGame)
\* or to the client that called solveBoard, or to line 75 of the calling
\* solveBoard, which returns true in its turn or clears its cell (line 76) and
\* goes on with the next digit.
SolveBoardReturn ==
  /\ pc = "unwind"
  /\ IF stack = <<>>
       THEN /\ pc' = IF caller = "solver" THEN "solved" ELSE "copy"
            /\ UNCHANGED <<heap, stack, entry>>
       ELSE LET top == stack[Len(stack)]
            IN IF ret
                 THEN /\ stack' = SubSeq(stack, 1, Len(stack) - 1)
                      /\ entry' = SubSeq(entry, 1, Len(entry) - 1)
                      /\ pc' = "unwind"
                      /\ heap' = heap
                 ELSE /\ heap' = [heap EXCEPT ![board][top[1]][top[2]] = 0]
                      /\ stack' = [stack EXCEPT ![Len(stack)] =
                                     <<top[1], top[2], top[3] + 1>>]
                      /\ entry' = entry
                      /\ pc' = "try"
  /\ UNCHANGED <<live, board, solution, caller, arg, difficulty, fillPos, ret,
                 count, rng, result, earlier, games, uvars, probe, start>>

\* (a variant that stores this.board itself instead of a copy)
CopySolutionAlias ==
  /\ pc = "copy"
  /\ solution' = board
  /\ LET roots == Roots(board, board, result, initialBoard, currentBoard,
                        solutionBoard)
     IN /\ heap' = Collect(heap, roots)
        /\ live' = roots
  /\ count' = Attempts(difficulty)
  /\ pc' = "remove"
  /\ UNCHANGED <<board, caller, arg, difficulty, fillPos, stack, ret, rng,
                 result, earlier, games, uvars, probe, svars>>

\* Lines 95-102: this.solution becomes a new grid with the content of
\* this.board; the removal count is chosen and removeDigits is called.
CopySolution ==
  /\ pc = "copy"
  /\ LET a == NewAddr(live)
         roots == Roots(board, a, result, initialBoard, currentBoard,
                        solutionBoard)
     IN /\ solution' = a
        /\ heap' = Collect([heap EXCEPT ![a] = DeepCopy(heap[board])], roots)
        /\ live' = roots
  /\ count' = Attempts(difficulty)
  /\ pc' = "remove"
  /\ UNCHANGED <<board, caller, arg, difficulty, fillPos, stack, ret, rng,
                 result, earlier,
                 games, uvars, probe, svars>>

\* (a variant that counts a draw whether or not it cleared a cell)
RemoveDigitsStepBlind ==
  /\ pc = "remove"
  /\ count > 0
  /\ rng' = NextRng(rng)
  /\ LET cellId == RandomInt(rng', Size * Size)
     IN heap' = [heap EXCEPT ![board][cellId \div Size][cellId % Size] = 0]
  /\ count' = count - 1
  /\ UNCHANGED <<live, board, solution, pc, caller, arg, difficulty, fillPos,
                 stack, ret, result, earlier, games, uvars, probe, svars>>

\* Lines 110-117: one pass of removeDigits' loop.
RemoveDigitsStep ==
  /\ pc = "remove"
  /\ count > 0
  /\ rng' = NextRng(rng)
  /\ LET cellId == RandomInt(rng', Size * Size)
         i == cellId \div Size
         j == cellId % Size
     IN IF heap[board][i][j] # 0
          THEN /\ heap' = [heap EXCEPT ![board][i][j] = 0]
               /\ count' = count - 1
          ELSE UNCHANGED <<heap, count>>
  /\ UNCHANGED <<live, board, solution, pc, caller, arg, difficulty, fillPos, stack,
                 ret, result, earlier, games, uvars, probe, svars>>

\* Lines 103-106, the caller being a client of the class: the result holds
\* this.board and this.solution themselves.  The client keeps the result of
\* the call before and drops the one before that.
ReturnToClient ==
  /\ pc = "remove"
  /\ count = 0
  /\ caller = "client"
  /\ result' = [initial |-> board, solution |-> solution]
  /\ earlier' = result
  /\ LET roots == {board, solution, result.initial, result.solution,
                   initialBoard, currentBoard, solutionBoard} \ {Null}
     IN /\ heap' = Collect(heap, roots)
        /\ live' = roots
  /\ pc' = "returned"
  /\ UNCHANGED <<board, solution, caller, arg, difficulty, fillPos, stack, ret,
                 count, rng, games, uvars, probe, svars>>

\* The client writes v to cell (i, j) of a grid of the result it holds; the
\* behaviours followed end with this write.
ClientWrite(field, i, j, v) ==
  /\ pc = "returned"
  /\ heap' = [heap EXCEPT ![result[field]][i][j] = v]
  /\ pc' = "written"
  /\ UNCHANGED <<live, board, solution, caller, arg, difficulty, fillPos, stack,
                 ret, count, rng, result, earlier, games, uvars, probe, svars>>

Init ==
  /\ heap = [a \in Addr |-> ZeroGrid]
  /\ live = {1}
  /\ board = 1                 \* line 9
  /\ solution = Null           \* line 10
  /\ pc = "idle"
  /\ caller = "client"
  /\ arg = Undefined
  /\ difficulty = "Medium"
  /\ fillPos = <<0, 0, 0>>
  /\ stack = <<>>
  /\ ret = FALSE
  /\ count = 0
  /\ rng \in 0 .. MaxSeed
  /\ result = NoResult
  /\ earlier = NoResult
  /\ games = 0
  /\ initialBoard = Null       \* lines 127-133
  /\ currentBoard = Null
  /\ solutionBoard = Null
  /\ selectedCell = <<>>
  /\ timerInterval = Null
  /\ timeElapsed = 0
  /\ isGameActive = FALSE
  /\ intervals = {}
  /\ branch = "none"
  /\ probe = <<>>
  /\ start = ZeroGrid
  /\ entry = <<>>

Next ==
  \/ \E d \in Difficulties : GenerateNewGame(d)
  \/ FillBoxStep
  \/ SolveBoardEnter
  \/ SolveBoardTry
  \/ SolveBoardReturn
  \/ CopySolution
  \/ RemoveDigitsStep
  \/ ReturnToClient
  \/ \E field \in {"initial", "solution"}, i, j \in Idx, v \in ClientValues :
       ClientWrite(field, i, j, v)

Spec == Init /\ [][Next]_vars

\* The steps of a generateNewGame call under way.  The call is sequential code
\* that nothing suspends: a step that can be taken is taken.  Math.random is a
\* generator of full period, so a loop that draws forever draws every digit
\* and every cell index again and again.
Run ==
  \/ FillBoxStep
  \/ SolveBoardEnter
  \/ SolveBoardTry
  \/ SolveBoardReturn
  \/ CopySolution
  \/ RemoveDigitsStep
  \/ ReturnToClient

\* One generateNewGame call from each of the seeds 0..SeedSpan.
InitSeeds ==
  /\ heap = [a \in Addr |-> ZeroGrid]
  /\ live = {1}
  /\ board = 1
  /\ solution = Null
  /\ pc = "idle"
  /\ caller = "client"
  /\ arg = Undefined
  /\ difficulty = "Medium"
  /\ fillPos = <<0, 0, 0>>
  /\ stack = <<>>
  /\ ret = FALSE
  /\ count = 0
  /\ rng \in 0 .. SeedSpan
  /\ result = NoResult
  /\ earlier = NoResult
  /\ games = 0
  /\ initialBoard = Null
  /\ currentBoard = Null
  /\ solutionBoard = Null
  /\ selectedCell = <<>>
  /\ timerInterval = Null
  /\ timeElapsed = 0
  /\ isGameActive = FALSE
  /\ intervals = {}
  /\ branch = "none"
  /\ probe = <<>>
  /\ start = ZeroGrid
  /\ entry = <<>>

FirstGame(d) == games = 0 /\ GenerateNewGame(d)

\* A second call, made without an argument.
SecondGame == games = 1 /\ GenerateNewGame(Undefined)

\* A first call with any argument, then a second call.
NextFair ==
  \/ \E d \in Difficulties : FirstGame(d)
  \/ SecondGame
  \/ Run

FairSpec == Init /\ [][NextFair]_vars /\ WF_vars(Run)

NextSeeds ==
  \/ \E d \in {"Easy", "Medium", "Hard"} : FirstGame(d)
  \/ FillBoxStep
  \/ SolveBoardEnter
  \/ SolveBoardTry
  \/ SolveBoardReturn
  \/ CopySolution
  \/ RemoveDigitsStep
  \/ ReturnToClient

SpecSeeds == InitSeeds /\ [][NextSeeds]_vars


\* ================================================= the UI controller (app)
\* The DOM (cell elements, classes, the modal, the timer text) is not part of
\* the state: renderBoard, highlightRelated, showModal and closeModal change
\* nothing below.  Handlers run to completion: an event is handled only when
\* no call is under way (pc = "ui").

Keys == {"1", "2", "3", "4", "5", "6", "7", "8", "9", "Backspace", "Delete",
         "ArrowUp", "ArrowDown", "ArrowLeft", "ArrowRight", "a"}
Arrows == {"ArrowUp", "ArrowDown", "ArrowLeft", "ArrowRight"}
\* e.key >= '1' && e.key <= '9' (line 162)
IsDigitKey(k) == k \in {"1", "2", "3", "4", "5", "6", "7", "8", "9"}
\* parseInt(e.key) of a digit key (line 163)
ParseInt(k) ==
  [x \in {"1", "2", "3", "4", "5", "6", "7", "8", "9"} |->
     CASE x = "1" -> 1 [] x = "2" -> 2 [] x = "3" -> 3 [] x = "4" -> 4
       [] x = "5" -> 5 [] x = "6" -> 6 [] x = "7" -> 7 [] x = "8" -> 8
       [] x = "9" -> 9][k]

\* The buttons of the numpad: btn-clear and one button per data-value.
\* "none" is a click of the numpad that hits no button (line 267).
Buttons == {"btn-clear", "1", "2", "3", "4", "5", "6", "7", "8", "9", "none"}

\* ------------------------------------------------------------ app.fillCell
\* (a variant without the check of line 282)
fillCellAnywhere(h, num) ==
  IF selectedCell = <<>> THEN h
  ELSE [h EXCEPT ![currentBoard][selectedCell[1]][selectedCell[2]] = num]

\* Lines 277-285: the heap after fillCell(num).
fillCell(h, num) ==
  IF selectedCell = <<>> THEN h
  ELSE IF h[initialBoard][selectedCell[1]][selectedCell[2]] # 0 THEN h
  ELSE [h EXCEPT ![currentBoard][selectedCell[1]][selectedCell[2]] = num]

\* ------------------------------------------------------- app.moveSelection
\* Lines 252-257: the cell an arrow key moves the selection to.
moveSelection(sel, key) ==
  LET Max(a, b) == IF a >= b THEN a ELSE b
      Min(a, b) == IF a <= b THEN a ELSE b
      row == IF key = "ArrowUp" THEN Max(0, sel[1] - 1)
             ELSE IF key = "ArrowDown" THEN Min(Size - 1, sel[1] + 1)
             ELSE sel[1]
      col == IF key = "ArrowLeft" THEN Max(0, sel[2] - 1)
             ELSE IF key = "ArrowRight" THEN Min(Size - 1, sel[2] + 1)
             ELSE sel[2]
  IN <<row, col>>

\* ------------------------------------------------------ app.checkSolution
\* (a variant that never clears isComplete)
CheckBranchNoComplete(cur, sol) ==
  IF \A i, j \in Idx : cur[i][j] = 0 \/ cur[i][j] = sol[i][j]
    THEN "won" ELSE "incorrect"

\* Lines 307-339: the flags the loops compute and the branch taken.
CheckBranch(cur, sol) ==
  LET isComplete == \A i, j \in Idx : cur[i][j] # 0
      isCorrect == \A i, j \in Idx : cur[i][j] = 0 \/ cur[i][j] = sol[i][j]
  IN IF isComplete /\ isCorrect THEN "won"
     ELSE IF ~isCorrect THEN "incorrect"
     ELSE "incomplete"

\* ------------------------------------------------- the player that is followed
\* The cells the player selects: the first given cell and the first blank cell
\* of the puzzle, and the first empty cell of the current board.
RECURSIVE ScanGiven(_, _)
ScanGiven(b, c) ==
  IF c >= Size * Size THEN Size * Size
  ELSE IF b[c \div Size][c % Size] # 0 THEN c
  ELSE ScanGiven(b, c + 1)
FirstGiven(b) == ScanGiven(b, 0)
CellOf(c) == <<c \div Size, c % Size>>
PlayCells ==
  IF pc # "ui" THEN {} ELSE
  {CellOf(c) : c \in {FirstGiven(heap[initialBoard]), FirstEmpty(heap[initialBoard]),
                      FirstEmpty(heap[currentBoard])} \ {Size * Size}}
\* The digits the player enters: anything in the first blank cell of the
\* puzzle and in given cells, elsewhere the digit of the solution or a clear.
PlayerEnters(num) ==
  IF selectedCell = <<>> THEN TRUE
  ELSE IF selectedCell = CellOf(FirstEmpty(heap[initialBoard])) THEN TRUE
  ELSE IF heap[initialBoard][selectedCell[1]][selectedCell[2]] # 0 THEN TRUE
  ELSE num \in {0, heap[solutionBoard][selectedCell[1]][selectedCell[2]]}

\* Lines 154 and 138: a click on New Game, or init() at DOMContentLoaded, calls
\* startNewGame, which calls generateNewGame() (line 173).  The player clicks
\* New Game on a board without entries or when the game is over.
StartNewGame ==
  /\ \/ pc = "idle"
     \/ /\ pc = "ui"
        /\ (heap[currentBoard] = heap[initialBoard] \/ ~isGameActive)
  /\ Enter("app", Undefined)

\* (a variant without the clearInterval of line 357)
resetTimerNoClear(running) == running

\* Line 357: the running intervals after clearInterval(this.timerInterval).
resetTimer(running) == running \ {timerInterval}

\* Lines 103-106 and 174-184: generateNewGame returns to startNewGame, which
\* copies gameData.initial twice, keeps gameData.solution itself, clears the
\* interval of timerInterval and starts a new one.
ReturnToApp ==
  /\ pc = "remove"
  /\ count = 0
  /\ caller = "app"
  /\ LET a1 == NewAddr(live)
         h1 == [heap EXCEPT ![a1] = DeepCopy(heap[board])]
         live1 == Roots(board, solution, result, a1, currentBoard, solution)
         a2 == NewAddr(live1)
         h2 == [h1 EXCEPT ![a2] = DeepCopy(h1[a1])]
         roots == Roots(board, solution, result, a1, a2, solution)
     IN /\ initialBoard' = a1
        /\ solutionBoard' = solution
        /\ currentBoard' = a2
        /\ heap' = Collect(h2, roots)
        /\ live' = roots
  /\ LET cleared == resetTimer(intervals)
         id == CHOOSE n \in 1 .. (Cardinality(cleared) + 1) : n \notin cleared
     IN /\ timerInterval' = id
        /\ intervals' = cleared \cup {id}
  /\ timeElapsed' = 0
  /\ isGameActive' = TRUE
  /\ selectedCell' = <<>>
  /\ branch' = "none"
  /\ pc' = "ui"
  /\ UNCHANGED <<board, solution, caller, arg, difficulty, fillPos, stack, ret,
                 count, rng, result, earlier, games, probe, svars>>

\* (a variant without the check of line 213)
SelectCellAlways(row, col) ==
  /\ pc = "ui"
  /\ selectedCell' = <<row, col>>
  /\ branch' = "none"
  /\ UNCHANGED <<gvars, initialBoard, currentBoard, solutionBoard,
                 timerInterval, timeElapsed, isGameActive, intervals, probe, svars>>

\* Lines 206 and 212-225: a click on the cell (row, col).
SelectCell(row, col) ==
  /\ pc = "ui"
  /\ selectedCell' = IF isGameActive THEN <<row, col>> ELSE selectedCell
  /\ branch' = "none"
  /\ UNCHANGED <<gvars, initialBoard, currentBoard, solutionBoard,
                 timerInterval, timeElapsed, isGameActive, intervals, probe, svars>>

\* Lines 160-169: a key is pressed.
KeyDown(key) ==
  /\ pc = "ui"
  /\ IF IsDigitKey(key) THEN PlayerEnters(ParseInt(key)) ELSE TRUE
  /\ IF key \in Arrows /\ selectedCell # <<>>
       THEN moveSelection(selectedCell, key) \in PlayCells \cup {selectedCell}
       ELSE TRUE
  /\ IF ~isGameActive THEN UNCHANGED <<heap, selectedCell>>
     ELSE IF IsDigitKey(key)
       THEN heap' = fillCell(heap, ParseInt(key)) /\ UNCHANGED selectedCell
     ELSE IF key \in {"Backspace", "Delete"}
       THEN heap' = fillCell(heap, 0) /\ UNCHANGED selectedCell
     ELSE IF key \in Arrows /\ selectedCell # <<>>
       THEN selectedCell' = moveSelection(selectedCell, key) /\ UNCHANGED heap
     ELSE UNCHANGED <<heap, selectedCell>>
  /\ branch' = "none"
  /\ UNCHANGED <<live, board, solution, pc, caller, arg, difficulty, fillPos,
                 stack, ret, count, rng, result, earlier, games, initialBoard,
                 currentBoard, solutionBoard, timerInterval, timeElapsed,
                 isGameActive, intervals, probe, svars>>

\* Lines 264-275: a click on a button of the numpad.
HandleNumpad(button) ==
  /\ pc = "ui"
  /\ IF button \notin {"btn-clear", "none"}
       THEN PlayerEnters(ParseInt(button)) ELSE TRUE
  /\ heap' = IF ~isGameActive \/ button = "none" THEN heap
             ELSE IF button = "btn-clear" THEN fillCell(heap, 0)
             ELSE fillCell(heap, ParseInt(button))
  /\ branch' = "none"
  /\ UNCHANGED <<live, board, solution, pc, caller, arg, difficulty, fillPos,
                 stack, ret, count, rng, result, earlier, games, initialBoard,
                 currentBoard, solutionBoard, selectedCell, timerInterval,
                 timeElapsed, isGameActive, intervals, probe, svars>>

\* Lines 306-346: a click on Check; gameWon when the board is complete and
\* correct.
CheckSolution ==
  /\ pc = "ui"
  /\ branch' = CheckBranch(heap[currentBoard], heap[solutionBoard])
  /\ IF branch' = "won"
       THEN /\ isGameActive' = FALSE
            /\ intervals' = intervals \ {timerInterval}
       ELSE UNCHANGED <<isGameActive, intervals>>
  /\ UNCHANGED <<gvars, initialBoard, currentBoard, solutionBoard,
                 selectedCell, timerInterval, timeElapsed, probe, svars>>

\* Lines 350-353: the callback of a running interval.
Tick(id) ==
  /\ pc = "ui"
  /\ id \in intervals
  /\ timeElapsed < MaxTime
  /\ timeElapsed' = timeElapsed + 1
  /\ UNCHANGED <<gvars, initialBoard, currentBoard, solutionBoard,
                 selectedCell, timerInterval, isGameActive, intervals, branch,
                 probe, svars>>

NextUI ==
  \/ StartNewGame
  \/ FillBoxStep
  \/ SolveBoardEnter
  \/ SolveBoardTry
  \/ SolveBoardReturn
  \/ CopySolution
  \/ RemoveDigitsStep
  \/ ReturnToApp
  \/ \E cell \in PlayCells : SelectCell(cell[1], cell[2])
  \/ \E key \in Keys : KeyDown(key)
  \/ \E button \in Buttons : HandleNumpad(button)
  \/ CheckSolution

\* The controller without the callbacks of the timer.
SpecUI == Init /\ [][NextUI]_vars

\* The controller with the callbacks of the timer: between two handlers the
\* callback of any running interval may run.  The player clicks cells, types
\* digits, and clicks New Game and Check.
NextTimer ==
  \/ StartNewGame
  \/ FillBoxStep
  \/ SolveBoardEnter
  \/ SolveBoardTry
  \/ SolveBoardReturn
  \/ CopySolution
  \/ RemoveDigitsStep
  \/ ReturnToApp
  \/ \E cell \in PlayCells : SelectCell(cell[1], cell[2])
  \/ \E key \in {k \in Keys : IsDigitKey(k)} : KeyDown(key)
  \/ CheckSolution
  \/ \E id \in intervals : Tick(id)

SpecTimer == Init /\ [][NextTimer]_vars


\* ============================================== a call of isValid by a client
\* The client calls isValid(grid, row, col, num) on a grid generateNewGame
\* returned to it (the puzzle or the solution); the behaviours followed end
\* with the call.
ProbeIsValid(field, row, col, num) ==
  /\ pc = "returned"
  /\ probe' = [field |-> field, row |-> row, col |-> col, num |-> num,
               res |-> isValid(heap[result[field]], row, col, num)]
  /\ pc' = "probed"
  /\ UNCHANGED <<heap, live, board, solution, caller, arg, difficulty, fillPos,
                 stack, ret, count, rng, result, earlier, games, uvars, svars>>

NextProbe ==
  \/ \E d \in {"Easy", "Hard"} : FirstGame(d)
  \/ FillBoxStep
  \/ SolveBoardEnter
  \/ SolveBoardTry
  \/ SolveBoardReturn
  \/ CopySolution
  \/ RemoveDigitsStep
  \/ ReturnToClient
  \/ \E field \in {"initial", "solution"}, row, col \in Idx, num \in Digits :
       ProbeIsValid(field, row, col, num)

SpecProbe == Init /\ [][NextProbe]_vars

\* ======================================================= grid predicates
Cells == Idx \X Idx

\* The value of cell k (0..8) of unit u (0..8) of a kind: row u, column u, or
\* the 3x3 box u counted row-major.
UnitKinds == {"row", "col", "box"}
UnitVal(g, kind, u, k) ==
  IF kind = "row" THEN g[u][k]
  ELSE IF kind = "col" THEN g[k][u]
  ELSE g[3 * (u \div 3) + (k \div 3)][3 * (u % 3) + (k % 3)]

\* Every row, column and box holds each digit 1..9 exactly once: its nine
\* cells hold exactly the nine digits.
FullyValid(g) ==
  \A kind \in UnitKinds, u \in Idx :
    {UnitVal(g, kind, u, k) : k \in Idx} = 1 .. 9

\* No digit twice among the non-empty cells of a row, column or box: a unit
\* has as many distinct digits as it has non-empty cells.
NoDuplicate(g) ==
  \A kind \in UnitKinds, u \in Idx :
    Cardinality({UnitVal(g, kind, u, k) : k \in Idx} \ {0})
      = Cardinality({k \in Idx : UnitVal(g, kind, u, k) # 0})

Zeros(g) == Cardinality({c \in Cells : g[c[1]][c[2]] = 0})

\* ===================================== a call of solveBoard by a client
\* A client (a test) calls solveBoard(grid) on a grid of its own, here the
\* grid it has stored in this.board.

\* A solved grid the starting grids are cut from.
Base ==
  LET rows == << <<2, 1, 3, 4, 5, 6, 7, 8, 9>>,
                 <<4, 5, 6, 7, 8, 9, 1, 2, 3>>,
                 <<7, 8, 9, 1, 2, 3, 4, 5, 6>>,
                 <<1, 2, 4, 3, 6, 5, 8, 9, 7>>,
                 <<3, 6, 5, 8, 9, 7, 2, 1, 4>>,
                 <<8, 9, 7, 2, 1, 4, 3, 6, 5>>,
                 <<5, 3, 1, 6, 4, 2, 9, 7, 8>>,
                 <<6, 4, 2, 9, 7, 8, 5, 3, 1>>,
                 <<9, 7, 8, 5, 3, 1, 6, 4, 2>> >>
  IN [i \in Idx |-> [j \in Idx |-> rows[i + 1][j + 1]]]

\* The cells in which a starting grid differs from Base.
Window == {<<0, 0>>, <<0, 1>>, <<3, 0>>, <<3, 1>>, <<3, 2>>, <<6, 2>>, <<8, 8>>}

\* Base with the cells of E emptied and, when plant is a pair <<cell, digit>>,
\* the digit written into the cell.
Punch(E, plant) ==
  [i \in Idx |-> [j \in Idx |->
     IF <<i, j>> \in E THEN 0
     ELSE IF plant # <<>> /\ plant[1] = <<i, j>> THEN plant[2]
     ELSE Base[i][j]]]

\* The starting grids: at most MaxEmpty cells of the window emptied, at most
\* one digit replaced, no duplicate left.
StartGrids ==
  {g \in {Punch(E, plant) :
            E \in {X \in SUBSET Window : Cardinality(X) <= MaxEmpty},
            plant \in {<<>>} \cup (Window \X Digits)} :
     NoDuplicate(g)}

\* The state in which a client has called solveBoard on a grid of the set G.
InitSolveOn(G) ==
  /\ \E g \in G :
       /\ heap = [a \in Addr |-> IF a = 1 THEN g ELSE ZeroGrid]
       /\ start = g
  /\ live = {1}
  /\ board = 1
  /\ solution = Null
  /\ pc = "solve"
  /\ caller = "solver"
  /\ arg = Undefined
  /\ difficulty = "Medium"
  /\ fillPos = <<0, 0, 0>>
  /\ stack = <<>>
  /\ ret = FALSE
  /\ count = 0
  /\ rng = 0
  /\ result = NoResult
  /\ earlier = NoResult
  /\ games = 0
  /\ initialBoard = Null
  /\ currentBoard = Null
  /\ solutionBoard = Null
  /\ selectedCell = <<>>
  /\ timerInterval = Null
  /\ timeElapsed = 0
  /\ isGameActive = FALSE
  /\ intervals = {}
  /\ branch = "none"
  /\ probe = <<>>
  /\ entry = <<>>

InitSolve == InitSolveOn(StartGrids)

NextSolve ==
  \/ SolveBoardEnter
  \/ SolveBoardTry
  \/ SolveBoardReturn

SpecSolve == InitSolve /\ [][NextSolve]_vars

\* The grid whose diagonal boxes hold 1..9 in row-major order, a fixed seeding
\* of the kind fillDiagonal produces.
Seeded ==
  [i \in Idx |-> [j \in Idx |->
     IF i \div BoxSize = j \div BoxSize
       THEN BoxSize * (i % BoxSize) + (j % BoxSize) + 1 ELSE 0]]

\* solveBoard on the grids with the most empty cells: the empty grid and the
\* seeded grid.
InitDeep == InitSolveOn({ZeroGrid, Seeded})

SpecDeep == InitDeep /\ [][NextSolve]_vars

\* ==================================== a call of removeDigits by a client
\* A client calls removeDigits(count) on the working grid this.board.

\* The cells that are not empty in a sparse working grid.
RemoveWindow == {<<0, 0>>, <<4, 4>>, <<8, 8>>}

\* Base cut down to the cells of K.
Sparse(K) ==
  [i \in Idx |-> [j \in Idx |-> IF <<i, j>> \in K THEN Base[i][j] ELSE 0]]

\* The calls followed, each <<working grid, count>>: a sparse grid with a count
\* of 0..MaxCount, and the full grid with a count of 81 and of 82.
RemoveInputs ==
  ({Sparse(K) : K \in SUBSET RemoveWindow} \X (0 .. MaxCount))
    \cup ({Base} \X {Size * Size, Size * Size + 1})

\* (a variant whose loop also ends when no cell is left to clear)
RemoveDigitsReturnWhenEmpty ==
  /\ pc = "remove"
  /\ (count = 0 \/ heap[board] = ZeroGrid)
  /\ caller = "remover"
  /\ pc' = "removed"
  /\ UNCHANGED <<heap, live, board, solution, caller, arg, difficulty, fillPos,
                 stack, ret, count, rng, result, earlier, games, uvars, probe, svars>>

\* Line 110, count > 0 being false: removeDigits returns to the client.
RemoveDigitsReturn ==
  /\ pc = "remove"
  /\ count = 0
  /\ caller = "remover"
  /\ pc' = "removed"
  /\ UNCHANGED <<heap, live, board, solution, caller, arg, difficulty, fillPos,
                 stack, ret, count, rng, result, earlier, games, uvars, probe, svars>>

InitRemove ==
  /\ \E in \in RemoveInputs :
       /\ heap = [a \in Addr |-> IF a = 1 THEN in[1] ELSE ZeroGrid]
       /\ start = in[1]
       /\ count = in[2]
       /\ arg = in[2]
  /\ live = {1}
  /\ board = 1
  /\ solution = Null
  /\ pc = "remove"
  /\ caller = "remover"
  /\ difficulty = "Medium"
  /\ fillPos = <<0, 0, 0>>
  /\ stack = <<>>
  /\ ret = FALSE
  /\ rng \in 0 .. MaxSeed
  /\ result = NoResult
  /\ earlier = NoResult
  /\ games = 0
  /\ initialBoard = Null
  /\ currentBoard = Null
  /\ solutionBoard = Null
  /\ selectedCell = <<>>
  /\ timerInterval = Null
  /\ timeElapsed = 0
  /\ isGameActive = FALSE
  /\ intervals = {}
  /\ branch = "none"
  /\ probe = <<>>
  /\ entry = <<>>

NextRemove ==
  \/ RemoveDigitsStep
  \/ RemoveDigitsReturn

\* removeDigits is sequential code that nothing suspends.
SpecRemove == InitRemove /\ [][NextRemove]_vars /\ WF_vars(NextRemove)

\* ================================================================ claims
\* C1: the solution grid generateNewGame returns has no empty cell and holds
\* each digit 1..9 exactly once in every row, every column and every 3x3 box.
C1_SolutionValid ==
  pc = "returned" => FullyValid(heap[result.solution])

C1_Witness ==
  /\ pc = "returned"
  /\ arg = "Hard"
  /\ FullyValid(heap[result.solution])

\* C7: the solveBoard call of generateNewGame returns true on the seeded
\* grid, and the grid that is copied into the solution has no empty cell.
C7_SolveSucceeds ==
  pc = "copy" => (ret /\ Zeros(heap[board]) = 0)

C7_Witness ==
  /\ pc = "copy"
  /\ ret
  /\ arg = "Easy"
  /\ Zeros(heap[board]) = 0

\* C10: at every state of generateNewGame (after each write of fillBox, each
\* placement and each undo of solveBoard, each clearing of removeDigits) the
\* non-empty cells of the working grid hold no digit twice in a row, a column
\* or a box.
C10_NoDuplicateDuring ==
  pc \in {"fill", "solve", "try", "unwind", "copy", "remove"}
    => NoDuplicate(heap[board])

\* a state in the middle of the backtracking: an undo has just been made
C10_Witness ==
  /\ pc = "try"
  /\ Len(stack) > 20
  /\ stack[Len(stack)][3] > 5
  /\ NoDuplicate(heap[board])

\* C2: every call with difficulty Easy, Medium or Hard returns a puzzle with
\* exactly 30, 40 or 50 zero cells, each non-zero cell of which equals the cell
\* of the solution returned by the same call, also after earlier calls.
C2_PuzzleMatchesSolution ==
  (pc = "returned" /\ arg \in {"Easy", "Medium", "Hard"}) =>
    LET p == heap[result.initial]
        s == heap[result.solution]
    IN /\ Zeros(p) = (IF arg = "Easy" THEN 30 ELSE IF arg = "Medium" THEN 40 ELSE 50)
       /\ \A c \in Cells : p[c[1]][c[2]] # 0 => p[c[1]][c[2]] = s[c[1]][c[2]]

C2_Witness ==
  /\ pc = "returned"
  /\ games = 2
  /\ arg = "Hard"
  /\ Zeros(heap[result.initial]) = 50
  /\ Zeros(heap[result.solution]) = 0

\* C3: the returned puzzle and solution share no storage: a write to a cell of
\* one leaves the other unchanged, and the clearing of removeDigits never
\* changes the solution captured before it.
C3_NoSharedStorage ==
  [][/\ \A field \in {"initial", "solution"}, i, j \in Idx :
          ClientWrite(field, i, j, heap'[result[field]][i][j]) =>
            IF field = "initial"
              THEN heap'[result.solution] = heap[result.solution]
              ELSE heap'[result.initial] = heap[result.initial]
     /\ pc = "remove" => heap'[solution] = heap[solution]]_vars

\* a write has turned an empty cell of the puzzle into a digit, the solution
\* is as it was returned
C3_Witness ==
  /\ pc = "written"
  /\ arg = "Medium"
  /\ Zeros(heap[result.initial]) = 39
  /\ FullyValid(heap[result.solution])

\* C4 (as claimed): a write to a cell of a returned grid never changes
\* this.board or this.solution.
C4_ReturnedGridsIndependent ==
  [][\A field \in {"initial", "solution"}, i, j \in Idx :
       ClientWrite(field, i, j, heap'[result[field]][i][j]) =>
         (heap'[board] = heap[board] /\ heap'[solution] = heap[solution])]_vars

\* C5: a call with an argument other than 'Easy', 'Medium', 'Hard', the missing
\* argument included, returns a puzzle with exactly 40 empty cells.
C5_UnknownIsMedium ==
  (pc = "returned" /\ arg \notin {"Easy", "Medium", "Hard"}) =>
    Zeros(heap[result.initial]) = 40

C5_Witness ==
  /\ pc = "returned"
  /\ arg = "Expert"
  /\ Zeros(heap[result.initial]) = 40

\* C8: every cell that is non-zero in initialBoard holds the same value in
\* currentBoard, whatever events were handled.
C8_PrefilledKept ==
  initialBoard # Null =>
    \A i, j \in Idx :
      heap[initialBoard][i][j] # 0 =>
        heap[currentBoard][i][j] = heap[initialBoard][i][j]

\* a given cell is selected in the second game, the player has made entries
C8_Witness ==
  /\ pc = "ui"
  /\ games = 2
  /\ selectedCell # <<>>
  /\ heap[initialBoard][selectedCell[1]][selectedCell[2]] # 0
  /\ heap[currentBoard] # heap[initialBoard]

\* C9: checkSolution declares the game won exactly when currentBoard has no
\* zero cell and equals solutionBoard in all 81 cells; otherwise the game
\* stays active.
C9_WonIffSolved ==
  LET solved == \A c \in Cells :
                  /\ heap[currentBoard][c[1]][c[2]] # 0
                  /\ heap[currentBoard][c[1]][c[2]] = heap[solutionBoard][c[1]][c[2]]
  IN /\ branch = "won" => (solved /\ ~isGameActive)
     /\ branch \in {"incorrect", "incomplete"} => (~solved /\ isGameActive)

C9_Witness ==
  /\ branch = "won"
  /\ ~isGameActive
  /\ heap[currentBoard] = heap[solutionBoard]
  /\ heap[currentBoard] # heap[initialBoard]

\* The cells other than (row, col) in its row, its column or its 3x3 box.
OtherCells(row, col) ==
  {c \in Cells :
     /\ c # <<row, col>>
     /\ \/ c[1] = row
        \/ c[2] = col
        \/ (c[1] \div 3 = row \div 3 /\ c[2] \div 3 = col \div 3)}

ProbedGrid == heap[result[probe.field]]

\* C6 (as claimed): isValid(grid, row, col, num) is true exactly when no cell
\* other than (row, col) of its row, column and box holds num, the value at
\* (row, col) itself being ignored.
C6_IsValidIgnoresOwnCell ==
  pc = "probed" =>
    (probe.res <=>
       \A c \in OtherCells(probe.row, probe.col) :
         ProbedGrid[c[1]][c[2]] # probe.num)

\* C6 (amended): isValid(grid, row, col, num) is true exactly when neither the
\* cell (row, col) itself nor any other cell of its row, column and box holds
\* num.
C6_IsValidCountsOwnCell ==
  pc = "probed" =>
    (probe.res <=>
       /\ ProbedGrid[probe.row][probe.col] # probe.num
       /\ \A c \in OtherCells(probe.row, probe.col) :
            ProbedGrid[c[1]][c[2]] # probe.num)

\* isValid has answered false for the digit the cell itself holds, no other
\* cell of its row, column and box holding it
C6_Witness ==
  /\ pc = "probed"
  /\ ~probe.res
  /\ ProbedGrid[probe.row][probe.col] = probe.num
  /\ \A c \in OtherCells(probe.row, probe.col) :
       ProbedGrid[c[1]][c[2]] # probe.num

\* ------------------------------------------------- the completions of a grid
\* The digits no given cell of the row, the column or the box of (i, j) holds.
Cand(g, i, j) ==
  {d \in Digits : \A c \in OtherCells(i, j) : g[c[1]][c[2]] # d}

\* The grids that g becomes when each cell c, c + 1, ... that is empty in g0
\* gets a digit of its Cand in g0 (a digit outside Cand repeats a given cell,
\* so no valid completion has it).
RECURSIVE Fillings(_, _, _)
Fillings(g0, g, c) ==
  IF c = Size * Size THEN {g}
  ELSE IF g0[c \div Size][c % Size] # 0 THEN Fillings(g0, g, c + 1)
  ELSE UNION {Fillings(g0, [g EXCEPT ![c \div Size][c % Size] = d], c + 1) :
                d \in Cand(g0, c \div Size, c % Size)}

\* The valid completions of g: the fully valid grids that agree with g on its
\* non-empty cells.
Completions(g) == {h \in Fillings(g, g, 0) : FullyValid(h)}

\* h keeps every non-empty cell of g.
Keeps(g, h) == \A c \in Cells : g[c[1]][c[2]] # 0 => h[c[1]][c[2]] = g[c[1]][c[2]]

\* C11: on a starting grid without duplicates solveBoard returns true exactly
\* when the grid has a valid completion, and when it returns true the grid is
\* complete and fully valid and keeps every cell that was non-empty at the call.
C11_SolveExhaustive ==
  (pc = "solved" /\ NoDuplicate(start)) =>
    /\ ret <=> Completions(start) # {}
    /\ ret => (FullyValid(heap[board]) /\ Keeps(start, heap[board]))

\* solveBoard has returned true on a grid with five empty cells and two
\* completions
C11_Witness ==
  /\ pc = "solved"
  /\ ret
  /\ Zeros(start) = 5
  /\ Cardinality(Completions(start)) = 2
  /\ FullyValid(heap[board])

\* C12: whenever a solveBoard call, outermost or recursive, returns false
\* (line 79), the grid is cell for cell what it was when that call began.
C12_FailureRestores ==
  [][(pc = "try" /\ pc' = "unwind") =>
       (~ret' /\ heap'[board] = entry[Len(entry)])]_vars

\* the outermost call has returned false, having placed a digit in the first
\* empty cell, and the grid is the starting grid
C12_Witness ==
  /\ pc = "solved"
  /\ ~ret
  /\ heap[board] = start
  /\ \E d \in Digits :
       isValid(start, FirstEmpty(start) \div Size, FirstEmpty(start) % Size, d)

\* g is not after h in the row-major lexicographic order: the grids are equal
\* or g is smaller in the first cell in which they differ.
LexLeq(g, h) ==
  LET diff == {c \in 0 .. (Size * Size - 1) :
                 g[c \div Size][c % Size] # h[c \div Size][c % Size]}
      c == CHOOSE x \in diff : \A y \in diff : x <= y
  IN diff = {} \/ g[c \div Size][c % Size] < h[c \div Size][c % Size]

LexMin(S) == CHOOSE h \in S : \A k \in S : LexLeq(h, k)

\* What the starting grid g determines: failure and g itself when g has no
\* valid completion, else success and the smallest valid completion.
Outcome(g) ==
  IF Completions(g) = {} THEN [ret |-> FALSE, grid |-> g]
  ELSE [ret |-> TRUE, grid |-> LexMin(Completions(g))]

\* C13: the return value and the final grid of solveBoard are a function of
\* the starting grid (two runs from equal grids end alike), and when a valid
\* completion exists the final grid is the smallest one in row-major
\* lexicographic order.
C13_SolveDeterministic ==
  pc = "solved" => [ret |-> ret, grid |-> heap[board]] = Outcome(start)

\* of the two completions of the starting grid the solver has produced the
\* smallest, which is not the grid the starting grid was cut from
C13_Witness ==
  /\ pc = "solved"
  /\ ret
  /\ Base \in Completions(start)
  /\ heap[board] # Base
  /\ heap[board] = LexMin(Completions(start))

\* The cells of the three diagonal boxes.
DiagonalCells == {c \in Cells : c[1] \div BoxSize = c[2] \div BoxSize}

\* C14: when fillDiagonal has run on the grid generateNewGame has just reset,
\* each of the boxes with origins (0,0), (3,3), (6,6) holds each digit 1..9
\* exactly once and the 54 cells outside these boxes are 0.
C14_DiagonalFilled ==
  (pc = "solve" /\ stack = <<>>) =>
    LET g == heap[board]
    IN /\ \A o \in {0, 3, 6} :
            /\ {g[o + i][o + j] : i, j \in 0 .. 2} = 1 .. 9
            /\ Cardinality({<<i, j>> \in (0 .. 2) \X (0 .. 2) : g[o + i][o + j] # 0}) = 9
       /\ \A c \in Cells \ DiagonalCells : g[c[1]][c[2]] = 0

\* fillDiagonal has ended: 54 empty cells, and the three boxes do not begin
\* with the same digit
C14_Witness ==
  /\ pc = "solve"
  /\ stack = <<>>
  /\ Zeros(heap[board]) = 54
  /\ Cardinality({heap[board][o][o] : o \in {0, 3, 6}}) > 1
  /\ \A c \in DiagonalCells : heap[board][c[1]][c[2]] # 0

\* C15: every call of generateNewGame, whatever its difficulty argument,
\* eventually returns: the loops of fillBox, the search of solveBoard and the
\* loop of removeDigits all end.
C15_GenerateReturns == (pc = "fill") ~> (pc = "returned")

\* the second call, made without an argument, has returned
C15_Witness ==
  /\ pc = "returned"
  /\ games = 2
  /\ arg = Undefined
  /\ count = 0
  /\ stack = <<>>

\* The count passed to removeDigits is greater than the number of non-empty
\* cells of the working grid at the call.
CountExceeds == arg > Size * Size - Zeros(start)

\* C16: a call removeDigits(count) with count greater than the number of
\* non-empty cells never returns: it reaches a state with every cell 0 and the
\* remaining count positive, and from such a state no draw changes the grid or
\* the count.  With count at most the number of non-empty cells the call
\* returns, having cleared exactly count distinct cells.
C16_RemoveDigits ==
  /\ [](CountExceeds => pc # "removed")
  /\ CountExceeds ~> (heap[board] = ZeroGrid /\ count > 0)
  /\ [][(heap[board] = ZeroGrid /\ count > 0) =>
          (heap'[board] = heap[board] /\ count' = count /\ pc' = "remove")]_vars
  /\ ~CountExceeds ~> (pc = "removed")
  /\ [](pc = "removed" =>
          /\ Zeros(heap[board]) = Zeros(start) + arg
          /\ \A c \in Cells : heap[board][c[1]][c[2]] \in {0, start[c[1]][c[2]]})

\* the call removeDigits(82) on a full grid has cleared all 81 cells and goes
\* on drawing with a count of 1
C16_Witness ==
  /\ pc = "remove"
  /\ arg = Size * Size + 1
  /\ start = Base
  /\ heap[board] = ZeroGrid
  /\ count = 1
  /\ rng # 0

\* The solveBoard calls that are active: those of stack, and the call that has
\* been made and has not yet scanned the grid.
ActiveCalls == Len(stack) + (IF pc = "solve" THEN 1 ELSE 0)

\* Every active call other than the innermost has placed its digit in a cell
\* that was empty at the start, no two of them in the same cell.
CallsHavePlaced ==
  LET outer == 1 .. (IF pc = "solve" THEN Len(stack) ELSE Len(stack) - 1)
  IN /\ \A k \in outer :
          /\ start[stack[k][1]][stack[k][2]] = 0
          /\ stack[k][3] \in Digits
          /\ heap[board][stack[k][1]][stack[k][2]] = stack[k][3]
     /\ \A k1, k2 \in outer :
          k1 # k2 => <<stack[k1][1], stack[k1][2]>> # <<stack[k2][1], stack[k2][2]>>

\* C17 (as claimed): the number of active solveBoard calls never exceeds 81,
\* and each active call other than the innermost has placed a digit in one
\* distinct cell that was empty at the start.
C17_DepthAtMost81 ==
  /\ ActiveCalls <= Size * Size
  /\ CallsHavePlaced

\* C17 (amended): the number of active solveBoard calls never exceeds the
\* number of empty cells of the starting grid plus one, 82 at most, and each
\* active call other than the innermost has placed a digit in one distinct
\* cell that was empty at the start.
C17_DepthAtMostEmptyPlusOne ==
  /\ ActiveCalls <= Zeros(start) + 1
  /\ ActiveCalls <= Size * Size + 1
  /\ CallsHavePlaced

\* on the empty grid 81 calls have placed a digit each and the 82nd call has
\* been made
C17_Witness ==
  /\ start = ZeroGrid
  /\ pc = "solve"
  /\ Len(stack) = Size * Size
  /\ ActiveCalls = Size * Size + 1
  /\ Zeros(heap[board]) = 0

\* The grids of the results the client holds.
Held(res, ear) == {res.initial, res.solution, ear.initial, ear.solution} \ {Null}

\* C18: no step of a generateNewGame call, from the reset of line 88 to the
\* return, changes a grid returned by an earlier call: every grid the client
\* holds before and after the step has the same content after it as before
\* (the one step that is not of generateNewGame is the client's own write).
C18_EarlierResultsKept ==
  [][pc' # "written" =>
       \A a \in Held(result, earlier) \cap Held(result', earlier') :
         heap'[a] = heap[a]]_vars

\* the second call has returned a puzzle and a solution of its own; the grids
\* of the first call are fully valid and a puzzle with 40 empty cells still
C18_Witness ==
  /\ pc = "returned"
  /\ games = 2
  /\ earlier # NoResult
  /\ Held(result, NoResult) \cap Held(earlier, NoResult) = {}
  /\ FullyValid(heap[earlier.solution])
  /\ Zeros(heap[earlier.initial]) = 40
  /\ heap[result.solution] # heap[earlier.solution]

\* C19: at most one interval is running, and it is the one of timerInterval;
\* while the game is not active (before the first game and from gameWon to the
\* end of the next startNewGame) none is running; timeElapsed changes only by
\* one tick of the one running interval or by the reset of startTimer, and
\* not at all from a win to the end of the next startNewGame.
C19_OneTimer ==
  /\ [](/\ Cardinality(intervals) <= 1
        /\ intervals \subseteq {timerInterval}
        /\ ~isGameActive => intervals = {})
  /\ [][/\ timeElapsed' # timeElapsed =>
             \/ timeElapsed' = timeElapsed + 1 /\ intervals = {timerInterval}
             \/ timeElapsed' = 0 /\ pc = "remove" /\ pc' = "ui"
        /\ (~isGameActive /\ ~isGameActive') => timeElapsed' = timeElapsed]_vars

\* the second game has been won after two ticks: no interval is running
C19_Witness ==
  /\ pc = "ui"
  /\ games = 2
  /\ branch = "won"
  /\ ~isGameActive
  /\ timeElapsed = 2
  /\ timerInterval # Null
  /\ intervals = {}

\* C20: while the game is not active no handler other than startNewGame
\* changes currentBoard or selectedCell; startNewGame ends with no cell
\* selected; and while no cell is selected no input changes a cell of
\* currentBoard.
C20_NoInputWhenInactive ==
  [][/\ (pc = "ui" /\ pc' = "ui" /\ ~isGameActive) =>
          /\ currentBoard' = currentBoard
          /\ heap'[currentBoard] = heap[currentBoard]
          /\ selectedCell' = selectedCell
     /\ (pc = "remove" /\ pc' = "ui") => selectedCell' = <<>>
     /\ (pc = "ui" /\ pc' = "ui" /\ selectedCell = <<>>) =>
          heap'[currentBoard] = heap[currentBoard]]_vars

\* the game is won and a handler other than checkSolution has run since: the
\* board is the solved board and the selection is the cell selected at the win
C20_Witness ==
  /\ pc = "ui"
  /\ ~isGameActive
  /\ branch = "none"
  /\ selectedCell # <<>>
  /\ heap[currentBoard] = heap[solutionBoard]
  /\ heap[currentBoard] # heap[initialBoard]

====
